---- MODULE Spec2Model ----
(***************************************************************************)
(* A model of the three memory services of ai-memory:                      *)
(*   service A  src/cognee/cognee_app/main.py     (relational store)       *)
(*   service B  src/graphiti/graphiti_app/main.py (graph store)            *)
(*   service C  src/mem0/mem0_app/main.py         (vector store)           *)
(* Strings are sequences of one-character strings, so that f-string        *)
(* formatting, STARTS WITH, split and toInteger are computed as the code   *)
(* and the queries compute them.  JSON values of a request body are        *)
(* records [t, i, s, l] (type tag, integer, string, list of strings).      *)
(* The clock `now` counts days; service B's time.time() is in seconds.     *)
(***************************************************************************)
EXTENDS Integers, Sequences, FiniteSets, TLC

VARIABLES
    unit,       \* the deployable unit observed: "A", "B" or "C" (they share nothing)
    now,        \* wall clock, in days
    request,    \* the request being handled (NoRequest between requests)
    resp,       \* the response of the last request (with the library call it made)
    poll,       \* services B and C: the startup polling loop, [i, state]
    lastAdd,    \* history: the last successful add/ingest (service, pair, scoping token)
    db,         \* service A: the relational tables the /delete handler touches
    graphiti,   \* service B: global `graphiti` is set
    async_driver, \* service B: global `async_driver` is set
    nodes,      \* service B: the nodes of the graph
    rels,       \* service B: the relationships of the graph, as <<episode uuid, entity node>>
    memory,     \* service C: global `memory` is set
    memories    \* service C: the memory records of the vector store

vars == <<unit, now, request, resp, poll, lastAdd, db, graphiti, async_driver, nodes, rels, memory, memories>>

(***************************************************************************)
(* Strings                                                                 *)
(***************************************************************************)
Digits == <<"0", "1", "2", "3", "4", "5", "6", "7", "8", "9">>

IsDigit(c) == \E k \in 1..10 : Digits[k] = c

DigitVal(c) == (CHOOSE k \in 1..10 : Digits[k] = c) - 1

\* str(n) of a non-negative int
RECURSIVE str_int(_)
str_int(n) ==
    IF n < 10 THEN <<Digits[n + 1]>>
    ELSE str_int(n \div 10) \o <<Digits[(n % 10) + 1]>>

RECURSIVE DecimalValue(_)
DecimalValue(s) ==
    IF s = <<>> THEN 0
    ELSE 10 * DecimalValue(SubSeq(s, 1, Len(s) - 1)) + DigitVal(s[Len(s)])

AllDigits(s) == s # <<>> /\ \A k \in 1..Len(s) : IsDigit(s[k])

NoUnderscore(s) == \A k \in 1..Len(s) : s[k] # "_"

\* Cypher: a STARTS WITH p
StartsWith(s, p) == Len(p) <= Len(s) /\ SubSeq(s, 1, Len(p)) = p

\* Cypher: split(s, '_'), the list of the fields between the underscores
RECURSIVE split(_)
split(s) ==
    IF \A k \in 1..Len(s) : s[k] # "_" THEN <<s>>
    ELSE LET k == CHOOSE j \in 1..Len(s) :
                      s[j] = "_" /\ \A h \in 1..(j - 1) : s[h] # "_"
         IN <<SubSeq(s, 1, k - 1)>> \o split(SubSeq(s, k + 1, Len(s)))

\* Cypher: toInteger(string): the integer, or null when the string is no number
toInteger(s) ==
    IF AllDigits(s) THEN [null |-> FALSE, v |-> DecimalValue(s)]
    ELSE [null |-> TRUE, v |-> 0]

(***************************************************************************)
(* JSON values of a request body                                           *)
(***************************************************************************)
JAbsent == [t |-> "absent", i |-> 0, s |-> <<>>, l |-> <<>>]
JNull == [t |-> "null", i |-> 0, s |-> <<>>, l |-> <<>>]
JStr(s) == [t |-> "str", i |-> 0, s |-> s, l |-> <<>>]
JInt(n) == [t |-> "int", i |-> n, s |-> <<>>, l |-> <<>>]
JList(l) == [t |-> "list", i |-> 0, s |-> <<>>, l |-> l]

\* payload.get(key): None when the key is absent
payload_get(v) == IF v.t = "absent" THEN JNull ELSE v

\* payload.get(key, default)
payload_get_default(v, default) == IF v.t = "absent" THEN JStr(default) ELSE v

\* Python truthiness
Truthy(v) ==
    CASE v.t = "str" -> v.s # <<>>
      [] v.t = "int" -> v.i # 0
      [] v.t = "list" -> v.l # <<>>
      [] OTHER -> FALSE

\* Python str(v), as an f-string formats it
py_str(v) ==
    CASE v.t = "str" -> v.s
      [] v.t = "int" -> str_int(v.i)
      [] OTHER -> <<"N", "o", "n", "e">>

\* Python int(v) raises for a string that is no number (and for a list)
int_raises(v) == ~(v.t = "int" \/ (v.t = "str" /\ AllDigits(v.s)))

py_int(v) == IF v.t = "int" THEN v.i ELSE DecimalValue(v.s)

(***************************************************************************)
(* Responses                                                               *)
(***************************************************************************)
\* status: the HTTP status; call: the wrapped library's primitive the handler
\* invoked ("none" when it invoked none); scope: the scoping token it passed.
\* opened and touched are history: whether a database connection was opened,
\* and the records a cleanup pass went for. results_list is the "results" of
\* service C's /search and candidates (history) the list the library gave it.
Response(svc, op, status) ==
    [svc |-> svc, op |-> op, status |-> status, call |-> "none", scope |-> <<>>,
     results |-> {}, results_list |-> <<>>, candidates |-> <<>>,
     opened |-> FALSE, touched |-> {},
     data_entries_deleted |-> 0, empty_datasets_removed |-> 0,
     deleted_episodes |-> 0, deleted_nodes |-> 0,
     deleted_count |-> 0, errors |-> 0]

NoAdd == [svc |-> "none", user_id |-> <<>>, category |-> <<>>, scope |-> <<>>]

(***************************************************************************)
(* Service A: tables                                                       *)
(***************************************************************************)
\* datasets: the names of the dataset rows (a dataset row is identified by its
\* name); data: <<data id, updated_at>>, one per id; dataset_data: <<dataset, data id>>;
\* acls, dataset_database, pipeline_runs: the dataset ids that have such rows.
EmptyDb ==
    [datasets |-> {}, data |-> {}, dataset_data |-> {},
     acls |-> {}, dataset_database |-> {}, pipeline_runs |-> {}]

\* f"{user_id}_{category}" in add_memory
add_composite_dataset_name(user_id, category) ==
    py_str(user_id) \o <<"_">> \o py_str(category)

\* the two parts of the name in the other order
search_composite_dataset_name_swapped(user_id, category) ==
    py_str(category) \o <<"_">> \o py_str(user_id)

\* f"{user_id}_{category}" in search_memory
search_composite_dataset_name(user_id, category) ==
    py_str(user_id) \o <<"_">> \o py_str(category)

\* f"{user_id}_{cat}" for cat in categories, in delete_old_data
composite_names(user_id, categories) ==
    {py_str(user_id) \o <<"_">> \o categories.l[k] : k \in 1..Len(categories.l)}

\* cognee.add(text_data, dataset_name=...): the library's write. The dataset row
\* (with its acls row) is made if there is none, the data row is identified by
\* its content and stamped, and the two are linked.
cognee_add(d, text, name, t) ==
    [d EXCEPT !.datasets = @ \cup {name},
              !.acls = @ \cup {name},
              !.data = {r \in @ : r[1] # text} \cup {<<text, t>>},
              !.dataset_data = @ \cup {<<name, text>>}]

\* the part of cognee.add done when it raises after it made the dataset row
cognee_add_dataset_only(d, name) ==
    [d EXCEPT !.datasets = @ \cup {name}, !.acls = @ \cup {name}]

\* cognee.cognify(): every dataset gets its pipeline run and database binding
cognee_cognify(d) ==
    [d EXCEPT !.pipeline_runs = @ \cup d.datasets,
              !.dataset_database = @ \cup d.datasets]

AddFaultsA == {"none", "add", "add_after_dataset", "cognify"}

\* POST /add of service A
add_memory(d, text_data, category_in, user_id_in, t, fault) ==
    LET text == payload_get(text_data)
        category == payload_get_default(category_in, <<"g", "e", "n", "e", "r", "a", "l">>)
        user_id == payload_get(user_id_in)
        composite_dataset_name == add_composite_dataset_name(user_id, category)
        called == [Response("A", "add", 500) EXCEPT
                      !.call = "cognee.add", !.scope = composite_dataset_name]
    IN  IF ~Truthy(text) \/ ~Truthy(user_id)
        THEN [resp |-> Response("A", "add", 400), db |-> d, added |-> FALSE]
        ELSE CASE fault = "add" ->
                    [resp |-> called, db |-> d, added |-> FALSE]
               [] fault = "add_after_dataset" ->
                    [resp |-> called,
                     db |-> cognee_add_dataset_only(d, composite_dataset_name),
                     added |-> FALSE]
               [] fault = "cognify" ->
                    [resp |-> called,
                     db |-> cognee_add(d, py_str(text), composite_dataset_name, t),
                     added |-> TRUE]
               [] OTHER ->
                    [resp |-> [called EXCEPT !.status = 200],
                     db |-> cognee_cognify(
                                cognee_add(d, py_str(text), composite_dataset_name, t)),
                     added |-> TRUE]

\* cognee.search(query, datasets=[name]): what is stored under the dataset
cognee_search(d, name) == {r[2] : r \in {x \in d.dataset_data : x[1] = name}}

SearchFaults == {"none", "search"}

\* POST /search of service A
search_memory(d, query_in, category_in, user_id_in, fault) ==
    LET query == payload_get(query_in)
        category == payload_get(category_in)
        user_id == payload_get(user_id_in)
        composite_dataset_name == search_composite_dataset_name(user_id, category)
        called == [Response("A", "search", 500) EXCEPT
                      !.call = "cognee.search", !.scope = composite_dataset_name]
    IN  IF ~Truthy(query) \/ ~Truthy(user_id) \/ ~Truthy(category)
        THEN Response("A", "search", 400)
        ELSE IF fault = "search" THEN called
        ELSE [called EXCEPT !.status = 200,
                            !.results = cognee_search(d, composite_dataset_name)]

\* The bindings the module's import statements make, in order: `import
\* datetime` binds the name to the module, `from datetime import datetime, ...`
\* binds it again, to the class.
ImportsA ==
    << [name |-> "datetime", value |-> "module datetime"],
       [name |-> "datetime", value |-> "class datetime.datetime"] >>

\* what a global name refers to once the module is imported: its last binding
global_name(imports, name) ==
    LET k == CHOOSE j \in 1..Len(imports) :
                  /\ imports[j].name = name
                  /\ \A h \in (j + 1)..Len(imports) : imports[h].name # name
    IN  imports[k].value

\* the attributes of the two objects that the handlers use
has_attribute(value, attribute) ==
    CASE value = "module datetime" -> attribute \in {"datetime", "timedelta", "timezone"}
      [] value = "class datetime.datetime" -> attribute \in {"now", "fromisoformat"}
      [] OTHER -> FALSE

\* GET /health of service A: datetime.datetime.now() is evaluated inside the
\* try; an AttributeError is answered by the except branch
health_check ==
    IF has_attribute(global_name(ImportsA, "datetime"), "datetime")
    THEN Response("A", "health", 200)
    ELSE Response("A", "health", 500)

(***************************************************************************)
(* Service A: POST /delete                                                 *)
(***************************************************************************)
\* a lookup that lost its WHERE clause
select_datasets_unfiltered(d, names) == d.datasets

\* SELECT id, name FROM datasets WHERE name = ANY($1)
select_datasets(d, names) == {n \in d.datasets : n \in names}

\* the cutoff comparison taken as <=
select_old_data_inclusive(d, dataset_ids, cutoff_date) ==
    {dd \in d.dataset_data :
        /\ dd[1] \in dataset_ids
        /\ \E r \in d.data : r[1] = dd[2] /\ r[2] <= cutoff_date}

\* SELECT d.id FROM data d JOIN dataset_data dd ON d.id = dd.data_id
\* WHERE dd.dataset_id = ANY($1) AND d.updated_at < $2: one row per link
select_old_data(d, dataset_ids, cutoff_date) ==
    {dd \in d.dataset_data :
        /\ dd[1] \in dataset_ids
        /\ \E r \in d.data : r[1] = dd[2] /\ r[2] < cutoff_date}

\* DELETE FROM dataset_data WHERE data_id = ANY($1) AND dataset_id = ANY($2)
delete_dataset_data(d, old_data_ids, dataset_ids) ==
    [d EXCEPT !.dataset_data =
        {dd \in @ : ~(dd[2] \in old_data_ids /\ dd[1] \in dataset_ids)}]

\* DELETE FROM data WHERE id = ANY($1)
delete_data(d, old_data_ids) ==
    [d EXCEPT !.data = {r \in @ : r[1] \notin old_data_ids}]

\* the emptiness check without its HAVING clause
select_empty_datasets_no_having(d, dataset_ids) ==
    {n \in d.datasets : n \in dataset_ids}

\* SELECT d.id FROM datasets d LEFT JOIN dataset_data dd ON d.id = dd.dataset_id
\* WHERE d.id = ANY($1) GROUP BY d.id HAVING COUNT(dd.data_id) = 0
select_empty_datasets(d, dataset_ids) ==
    {n \in d.datasets : n \in dataset_ids /\ ~(\E dd \in d.dataset_data : dd[1] = n)}

delete_acls(d, ids) == [d EXCEPT !.acls = @ \ ids]

delete_dataset_database(d, ids) == [d EXCEPT !.dataset_database = @ \ ids]

delete_pipeline_runs(d, ids) == [d EXCEPT !.pipeline_runs = @ \ ids]

delete_datasets(d, ids) == [d EXCEPT !.datasets = @ \ ids]

\* The statements the transaction body runs, in order, each with the tables
\* after it, and the response the body returns when none of them raises.
delete_transaction_body(d, names, cutoff_date) ==
    LET dataset_ids == select_datasets(d, names)
        old_data_rows == select_old_data(d, dataset_ids, cutoff_date)
        old_data_ids == {dd[2] : dd \in old_data_rows}
        deleted_count == Cardinality(old_data_rows)
        d3 == delete_dataset_data(d, old_data_ids, dataset_ids)
        d4 == delete_data(d3, old_data_ids)
        d5 == IF deleted_count > 0 THEN d4 ELSE d
        empty_dataset_ids == select_empty_datasets(d5, dataset_ids)
        datasets_removed_count == Cardinality(empty_dataset_ids)
        d6 == delete_acls(d5, empty_dataset_ids)
        d7 == delete_dataset_database(d6, empty_dataset_ids)
        d8 == delete_pipeline_runs(d7, empty_dataset_ids)
        d9 == delete_datasets(d8, empty_dataset_ids)
    IN  IF dataset_ids = {}
        THEN [run |-> << <<"select_datasets", d>> >>,
              resp |-> [Response("A", "delete", 404) EXCEPT !.opened = TRUE]]
        ELSE [run |-> << <<"select_datasets", d>>, <<"select_old_data", d>> >>
                      \o (IF deleted_count > 0
                          THEN << <<"delete_dataset_data", d3>>, <<"delete_data", d4>> >>
                          ELSE <<>>)
                      \o << <<"select_empty_datasets", d5>> >>
                      \o (IF empty_dataset_ids # {}
                          THEN << <<"delete_acls", d6>>, <<"delete_dataset_database", d7>>,
                                  <<"delete_pipeline_runs", d8>>, <<"delete_datasets", d9>> >>
                          ELSE <<>>),
              resp |-> [Response("A", "delete", 200) EXCEPT
                           !.opened = TRUE,
                           !.data_entries_deleted = deleted_count,
                           !.empty_datasets_removed = datasets_removed_count]]

DeleteFaultsA ==
    {"none", "connect", "select_datasets", "select_old_data", "delete_dataset_data",
     "delete_data", "select_empty_datasets", "delete_acls", "delete_dataset_database",
     "delete_pipeline_runs", "delete_datasets", "commit"}

\* statements run without a transaction around them
no_transaction(before, at_raise) == at_raise

\* async with conn.transaction(): what the tables hold when the block is left by
\* an exception, given the tables before it and at the statement that raised
transaction_rollback(before, at_raise) == before

\* The transaction: the body's statements run until the one named by `fault`
\* raises (if it runs at all); the commit is the last statement.
delete_transaction(d, names, cutoff_date, fault) ==
    LET body == delete_transaction_body(d, names, cutoff_date)
        last == body.run[Len(body.run)][2]
        run == body.run \o << <<"commit", last>> >>
        raising == {k \in 1..Len(run) : run[k][1] = fault}
    IN  IF raising = {}
        THEN [resp |-> body.resp, db |-> last]
        ELSE LET k == CHOOSE j \in raising : \A h \in raising : j <= h
                 at_raise == IF k = 1 THEN d ELSE run[k - 1][2]
             IN [resp |-> [Response("A", "delete", 500) EXCEPT
                              !.opened = TRUE,
                              !.touched = {run[j][1] : j \in 1..(k - 1)}],
                 db |-> transaction_rollback(d, at_raise)]

\* POST /delete of service A
delete_old_data(d, user_id_in, categories_in, days_in, t, fault) ==
    LET user_id == payload_get(user_id_in)
        categories == payload_get(categories_in)
        days == payload_get(days_in)
    IN  IF ~Truthy(user_id) \/ ~Truthy(categories) \/ days.t = "null"
        THEN [resp |-> Response("A", "delete", 400), db |-> d]
        ELSE IF categories.t # "list"
        THEN [resp |-> Response("A", "delete", 400), db |-> d]
        ELSE IF int_raises(days)
        THEN [resp |-> Response("A", "delete", 500), db |-> d]
        ELSE IF fault = "connect"
        THEN [resp |-> Response("A", "delete", 500), db |-> d]
        ELSE delete_transaction(d, composite_names(user_id, categories),
                                t - py_int(days), fault)

(***************************************************************************)
(* Service B: the graph                                                    *)
(***************************************************************************)
\* A node is [label, uuid, name, group_id, source_user, reference_time]; an
\* Episodic node keeps the ingesting user (source_description) and the ingest
\* time (reference_time, in days); each group has at most one Entity node here.
\* A relationship <<uuid, group_id>> links an episode to its group's entity.
MaxEpisodes == 2

days_to_keep == 90

SecondsPerDay == 24 * 60 * 60

\* int(time.time()), the clock being in days
time_time(t) == t * SecondsPerDay

Episode(uuid, name, group_id, source_user, t) ==
    [label |-> "Episodic", uuid |-> uuid, name |-> name, group_id |-> group_id,
     source_user |-> source_user, reference_time |-> t]

Entity(group_id) ==
    [label |-> "Entity", uuid |-> 0, name |-> <<"e">>, group_id |-> group_id,
     source_user |-> <<>>, reference_time |-> 0]

\* f"User_{user_id}_Ingest_{int(time.time())}"
episode_name(user_id, t) ==
    <<"U", "s", "e", "r", "_">> \o py_str(user_id)
        \o <<"_", "I", "n", "g", "e", "s", "t", "_">> \o str_int(time_time(t))

\* f"User_{user_id}_Ingest_"
user_prefix(user_id) ==
    <<"U", "s", "e", "r", "_">> \o py_str(user_id)
        \o <<"_", "I", "n", "g", "e", "s", "t", "_">>

\* f"{user_id}_{category}" in add_data
add_composite_group_id(user_id, category) ==
    py_str(user_id) \o <<"_">> \o py_str(category)

\* f"{user_id}_{category}" in strict_search
search_composite_group_id(user_id, category) ==
    py_str(user_id) \o <<"_">> \o py_str(category)

FreeUuids(g) == {u \in 1..MaxEpisodes : ~(\E n \in g.nodes : n.uuid = u)}

\* graphiti.add_episode(...): the library's write: the episode node and, when
\* the text mentions an entity, the group's entity node and the link to it
graphiti_add_episode(g, name, group_id, source_user, t, mentions) ==
    LET uuid == CHOOSE u \in FreeUuids(g) : \A v \in FreeUuids(g) : u <= v
    IN  [nodes |-> g.nodes \cup {Episode(uuid, name, group_id, source_user, t)}
                    \cup (IF mentions THEN {Entity(group_id)} ELSE {}),
         rels |-> g.rels \cup (IF mentions THEN {<<uuid, group_id>>} ELSE {})]

IngestFaultsB == {"none", "add_episode"}

\* POST /ingest of service B
add_data(g, graphiti_set, data_in, category_in, user_id_in, t, fault, mentions) ==
    LET text_data == payload_get(data_in)
        category == payload_get_default(category_in, <<"g", "e", "n", "e", "r", "a", "l">>)
        user_id == payload_get(user_id_in)
        composite_group_id == add_composite_group_id(user_id, category)
        called == [Response("B", "add", 500) EXCEPT
                      !.call = "graphiti.add_episode", !.scope = composite_group_id]
    IN  IF ~graphiti_set
        THEN [resp |-> Response("B", "add", 500), g |-> g, added |-> FALSE]
        ELSE IF ~Truthy(text_data) \/ ~Truthy(user_id)
        THEN [resp |-> Response("B", "add", 400), g |-> g, added |-> FALSE]
        ELSE IF fault = "add_episode"
        THEN [resp |-> called, g |-> g, added |-> FALSE]
        ELSE [resp |-> [called EXCEPT !.status = 201],
              g |-> graphiti_add_episode(g, episode_name(user_id, t), composite_group_id,
                                         py_str(user_id), t, mentions),
              added |-> TRUE]

\* graphiti.search(query, group_ids=[group_id]): what is stored in the group
graphiti_search(g, group_id) ==
    {n.uuid : n \in {m \in g.nodes : m.label = "Episodic" /\ m.group_id = group_id}}

\* POST /strict_search of service B
strict_search(g, graphiti_set, query_in, category_in, user_id_in, fault) ==
    LET query == payload_get(query_in)
        category == payload_get(category_in)
        user_id == payload_get(user_id_in)
        composite_group_id == search_composite_group_id(user_id, category)
        called == [Response("B", "search", 500) EXCEPT
                      !.call = "graphiti.search", !.scope = composite_group_id]
    IN  IF ~Truthy(query) \/ ~Truthy(category) \/ ~Truthy(user_id)
        THEN Response("B", "search", 400)
        ELSE IF ~graphiti_set THEN Response("B", "search", 500)
        ELSE IF fault = "search" THEN called
        ELSE [called EXCEPT !.status = 200,
                            !.results = graphiti_search(g, composite_group_id)]

\* GET /health of service B
health_check_B(graphiti_set, driver_set) ==
    IF graphiti_set /\ driver_set
    THEN Response("B", "health", 200)
    ELSE Response("B", "health", 503)

\* split(e.name, '_')[3] (Cypher lists count from 0), null past the end
name_field_3(name) ==
    LET fields == split(name)
    IN  IF Len(fields) >= 4 THEN toInteger(fields[4]) ELSE [null |-> TRUE, v |-> 0]

\* MATCH (e:Episodic) WHERE e.name STARTS WITH $user_prefix
\* AND toInteger(split(e.name, '_')[3]) < $cutoff
del_query_matches(g, prefix, cutoff) ==
    {e \in g.nodes :
        /\ e.label = "Episodic"
        /\ StartsWith(e.name, prefix)
        /\ ~name_field_3(e.name).null
        /\ name_field_3(e.name).v < cutoff}

\* DETACH DELETE e
detach_delete(g, matched) ==
    [nodes |-> g.nodes \ matched,
     rels |-> {r \in g.rels : ~(\E e \in matched : e.uuid = r[1])}]

has_relationship(g, n) ==
    IF n.label = "Episodic" THEN \E r \in g.rels : r[1] = n.uuid
    ELSE \E r \in g.rels : r[2] = n.group_id

\* a sweep that finds nothing
orphan_query_skipped(g) == {}

\* MATCH (n) WHERE NOT (n)--()
orphan_query_matches(g) == {n \in g.nodes : ~has_relationship(g, n)}

DeleteFaultsB == {"none", "session", "del_query", "orphan_query"}

\* POST /delete_old of service B; the two queries are committed one by one
delete_old_data_B(g, driver_set, user_id_in, t, fault) ==
    LET user_id == payload_get(user_id_in)
        cutoff_time == time_time(t) - (days_to_keep * SecondsPerDay)
        matched == del_query_matches(g, user_prefix(user_id), cutoff_time)
        g1 == detach_delete(g, matched)
        orphans == orphan_query_matches(g1)
        g2 == [g1 EXCEPT !.nodes = @ \ orphans]
    IN  IF ~Truthy(user_id)
        THEN [resp |-> Response("B", "delete", 400), g |-> g]
        ELSE IF ~driver_set \/ fault \in {"session", "del_query"}
        THEN [resp |-> Response("B", "delete", 500), g |-> g]
        ELSE IF fault = "orphan_query"
        THEN [resp |-> [Response("B", "delete", 500) EXCEPT !.touched = matched],
              g |-> g1]
        ELSE [resp |-> [Response("B", "delete", 200) EXCEPT
                           !.touched = matched,
                           !.deleted_episodes = Cardinality(matched),
                           !.deleted_nodes = Cardinality(orphans)],
              g |-> g2]

(***************************************************************************)
(* Service C: the memory records                                           *)
(***************************************************************************)
\* A record is [id, user_id, created_at, category]; created_at is in days (the
\* library stamps every record it makes).  memory is "importing" while the
\* module initializes, then "None" (initialization failed) or "Memory".
MaxMemories == 3

retention_days == 90

FreeIds(mems) == {k \in 1..MaxMemories : ~(\E m \in mems : m.id = k)}

\* memory.add(data, user_id=..., metadata={"category": ...}): the library's write
mem0_add(mems, user_id, category, t) ==
    LET id == CHOOSE k \in FreeIds(mems) : \A h \in FreeIds(mems) : k <= h
    IN  mems \cup {[id |-> id, user_id |-> user_id, created_at |-> t,
                    category |-> category]}

AddFaultsC == {"none", "add"}

\* POST /add of service C
add_memory_C(mems, memory_set, data_in, category_in, user_id_in, t, fault) ==
    LET called == [Response("C", "add", 500) EXCEPT
                      !.call = "memory.add", !.scope = py_str(payload_get(user_id_in))]
    IN  IF ~memory_set
        THEN [resp |-> Response("C", "add", 500), mems |-> mems]
        ELSE IF data_in.t = "absent" \/ user_id_in.t = "absent"
        THEN [resp |-> Response("C", "add", 400), mems |-> mems]
        ELSE IF fault = "add"
        THEN [resp |-> called, mems |-> mems]
        ELSE [resp |-> [called EXCEPT !.status = 201],
              mems |-> mem0_add(mems, py_str(user_id_in),
                                py_str(payload_get_default(category_in,
                                    <<"g", "e", "n", "e", "r", "a", "l">>)), t)]

\* memory.get_all(user_id=...)['results'], in the order of the ids
RECURSIVE in_id_order(_)
in_id_order(mems) ==
    IF mems = {} THEN <<>>
    ELSE LET first == CHOOSE m \in mems : \A o \in mems : m.id <= o.id
         IN <<first>> \o in_id_order(mems \ {first})

mem0_get_all(mems, user_id) == in_id_order({m \in mems : m.user_id = user_id})

\* a loop that gives up at the first delete that raises
RECURSIVE delete_each_until_error(_, _, _, _)
delete_each_until_error(user_memories, cutoff_date, failing, acc) ==
    IF user_memories = <<>> \/ acc.errors > 0 THEN acc
    ELSE LET mem == Head(user_memories)
             next == IF mem.created_at < cutoff_date
                     THEN IF mem.id \in failing
                          THEN [acc EXCEPT !.errors = @ + 1,
                                           !.touched = @ \cup {mem.id}]
                          ELSE [acc EXCEPT !.mems = @ \ {mem},
                                           !.deleted_count = @ + 1,
                                           !.touched = @ \cup {mem.id}]
                     ELSE acc
         IN delete_each_until_error(Tail(user_memories), cutoff_date, failing, next)

\* for mem in user_memories: memory.delete(memory_id=mem['id']) for the old ones,
\* counting the deletes done and collecting the ones that raised (`failing`)
RECURSIVE delete_each(_, _, _, _)
delete_each(user_memories, cutoff_date, failing, acc) ==
    IF user_memories = <<>> THEN acc
    ELSE LET mem == Head(user_memories)
             next == IF mem.created_at < cutoff_date
                     THEN IF mem.id \in failing
                          THEN [acc EXCEPT !.errors = @ + 1,
                                           !.touched = @ \cup {mem.id}]
                          ELSE [acc EXCEPT !.mems = @ \ {mem},
                                           !.deleted_count = @ + 1,
                                           !.touched = @ \cup {mem.id}]
                     ELSE acc
         IN delete_each(Tail(user_memories), cutoff_date, failing, next)

DeleteFaultsC == {"none", "get_all"}

\* candidates[:5]
top_results == 5

\* the library answers memory.search with a dict holding "results", with a
\* list, or with something else
normalize(raw_response) ==
    CASE raw_response.shape = "dict" -> raw_response.results
      [] raw_response.shape = "list" -> raw_response.results
      [] OTHER -> <<>>

\* m.get("metadata", {}).get("category") == category
has_category(m, category) == m.category = category

\* [m for m in candidates if m.get("metadata", {}).get("category") == category]
preferred(candidates, category) ==
    LET Test(m) == has_category(m, category)
    IN  SelectSeq(candidates, Test)

\* the category as a preference: the matching candidates if there are any
soft_category_preference(candidates, category) ==
    IF Truthy(category) /\ candidates # <<>>
    THEN IF preferred(candidates, category) # <<>>
         THEN preferred(candidates, category)
         ELSE candidates
    ELSE candidates

\* a response that is not trimmed
final_trim_none(candidates) == candidates

\* candidates[:5]
final_trim(candidates) ==
    SubSeq(candidates, 1, IF Len(candidates) < top_results THEN Len(candidates)
                          ELSE top_results)

\* POST /search of service C
search_memories(memory_set, query_in, category_in, user_id_in, fault, raw_response) ==
    LET category == payload_get(category_in)
        candidates == normalize(raw_response)
        called == [Response("C", "search", 500) EXCEPT
                      !.call = "memory.search", !.scope = py_str(user_id_in)]
    IN  IF ~memory_set THEN Response("C", "search", 500)
        ELSE IF query_in.t = "absent" \/ user_id_in.t = "absent"
        THEN Response("C", "search", 400)
        ELSE IF fault = "search" THEN called
        ELSE [called EXCEPT
                 !.status = 200,
                 !.candidates = candidates,
                 !.results_list =
                     final_trim(soft_category_preference(candidates, category))]

\* POST /delete_old of service C
delete_old_memories(mems, memory_set, user_id_in, t, fault, failing) ==
    LET cutoff_date == t - retention_days
        done == delete_each(mem0_get_all(mems, py_str(user_id_in)), cutoff_date, failing,
                            [mems |-> mems, deleted_count |-> 0, errors |-> 0,
                             touched |-> {}])
        called == [Response("C", "delete", 500) EXCEPT
                      !.call = "memory.get_all", !.scope = py_str(user_id_in)]
    IN  IF ~memory_set
        THEN [resp |-> Response("C", "delete", 500), mems |-> mems]
        ELSE IF user_id_in.t = "absent"
        THEN [resp |-> Response("C", "delete", 400), mems |-> mems]
        ELSE IF fault = "get_all"
        THEN [resp |-> called, mems |-> mems]
        ELSE [resp |-> [called EXCEPT
                           !.status = IF done.errors > 0 THEN 207 ELSE 200,
                           !.deleted_count = done.deleted_count,
                           !.errors = done.errors,
                           !.touched = done.touched],
              mems |-> done.mems]

(***************************************************************************)
(* Requests, the initial state and the steps                               *)
(***************************************************************************)
NoRequest ==
    [svc |-> "none", op |-> "none", data |-> JAbsent, query |-> JAbsent,
     user_id |-> JAbsent, category |-> JAbsent, categories |-> JAbsent, days |-> JAbsent]

AddRequest(svc, data, category, user_id) ==
    [NoRequest EXCEPT !.svc = svc, !.op = "add", !.data = data,
                      !.category = category, !.user_id = user_id]

SearchRequest(svc, query, category, user_id) ==
    [NoRequest EXCEPT !.svc = svc, !.op = "search", !.query = query,
                      !.category = category, !.user_id = user_id]

DeleteRequest(svc, user_id, categories, days) ==
    [NoRequest EXCEPT !.svc = svc, !.op = "delete", !.user_id = user_id,
                      !.categories = categories, !.days = days]

\* max_retries=60 of wait_for_neo4j and of wait_for_qdrant
max_retries == 60

\* what one connection attempt can end in
AttemptResults == {"connected", "refused", "timeout", "other_error"}

\* service A has no polling loop
NotPolling == [i |-> 0, state |-> "none"]

\* one iteration, with index i, of `for i in range(max_retries)`: return True
\* on a connection, sleep and go on when the except clause catches the
\* exception, raise when it does not or when the loop is exhausted. The
\* index is a local of the function and is gone when it returns or raises.
wait_iteration(i, result, caught) ==
    IF result = "connected" THEN [i |-> 0, state |-> "ready"]
    ELSE IF ~caught THEN [i |-> 0, state |-> "raised"]
    ELSE IF i + 1 < max_retries THEN [i |-> i + 1, state |-> "polling"]
    ELSE [i |-> 0, state |-> "raised"]

\* service B: except Exception
wait_for_neo4j(i, result) == wait_iteration(i, result, TRUE)

\* service C: except (socket.timeout, ConnectionRefusedError)
wait_for_qdrant(i, result) ==
    wait_iteration(i, result, result \in {"timeout", "refused"})

HealthRequest(svc) == [NoRequest EXCEPT !.svc = svc, !.op = "health"]

InitUnit(u) ==
    /\ unit = u
    /\ now = 0
    /\ request = NoRequest
    /\ resp = Response("none", "none", 0)
    /\ poll = IF u = "A" THEN NotPolling ELSE [i |-> 0, state |-> "polling"]
    /\ lastAdd = NoAdd
    /\ db = EmptyDb
    /\ graphiti = FALSE
    /\ async_driver = FALSE
    /\ nodes = {}
    /\ rels = {}
    /\ memory = "importing"
    /\ memories = {}

Init == \E u \in {"A", "B", "C"} : InitUnit(u)

InitA == InitUnit("A")

InitB == InitUnit("B")

InitC == InitUnit("C")

varsA == <<db>>

varsB == <<graphiti, async_driver, nodes, rels>>

varsC == <<memory, memories>>

\* service B: one connection attempt of wait_for_neo4j()
PollB(result) ==
    /\ unit = "B"
    /\ poll.state = "polling"
    /\ poll' = wait_for_neo4j(poll.i, result)
    /\ UNCHANGED <<unit, now, request, resp, lastAdd, varsA, varsB, varsC>>

\* service C: one connection attempt of wait_for_qdrant()
PollC(result) ==
    /\ unit = "C"
    /\ poll.state = "polling"
    /\ poll' = wait_for_qdrant(poll.i, result)
    /\ UNCHANGED <<unit, now, request, resp, lastAdd, varsA, varsB, varsC>>

\* service B: startup() ran to its end after wait_for_neo4j() returned (the
\* server takes no request before; when the wait raises the server does not start)
StartupB ==
    /\ unit = "B"
    /\ poll.state = "ready"
    /\ ~graphiti /\ ~async_driver
    /\ graphiti' = TRUE
    /\ async_driver' = TRUE
    /\ UNCHANGED <<unit, poll, now, request, resp, lastAdd, varsA, nodes, rels, varsC>>

\* service C: the module's initialization block ran to its end or to its
\* except clause: when wait_for_qdrant() or Memory.from_config() (~ok) raised,
\* memory stays None and the application serves all the same
StartupC(ok) ==
    /\ unit = "C"
    /\ poll.state \in {"ready", "raised"}
    /\ memory = "importing"
    /\ memory' = IF ok /\ poll.state = "ready" THEN "Memory" ELSE "None"
    /\ UNCHANGED <<unit, poll, now, request, resp, lastAdd, varsA, varsB, memories>>

Serving ==
    CASE unit = "A" -> TRUE
      [] unit = "B" -> graphiti /\ async_driver
      [] OTHER -> memory # "importing"

\* the stores of this model hold MaxEpisodes episodes and MaxMemories records
HasRoom(r) ==
    r.op = "add" =>
        CASE r.svc = "B" -> FreeUuids([nodes |-> nodes, rels |-> rels]) # {}
          [] r.svc = "C" -> FreeIds(memories) # {}
          [] OTHER -> TRUE

\* A request arrives; the response variable is cleared until it is answered.
Receive(r) ==
    /\ request = NoRequest
    /\ r.svc = unit
    /\ Serving
    /\ HasRoom(r)
    /\ request' = r
    /\ resp' = Response("none", "none", 0)
    /\ UNCHANGED <<unit, poll, now, lastAdd, varsA, varsB, varsC>>

\* Time passes between requests.
Tick(days, horizon) ==
    /\ request = NoRequest
    /\ now + days <= horizon
    /\ now' = now + days
    /\ UNCHANGED <<unit, poll, request, resp, lastAdd, varsA, varsB, varsC>>

Added(svc, scope) ==
    [svc |-> svc, user_id |-> py_str(payload_get(request.user_id)),
     category |-> py_str(payload_get_default(request.category,
                                             <<"g", "e", "n", "e", "r", "a", "l">>)),
     scope |-> scope]

\* `history` says whether the step records lastAdd (the scoping specification)
AddA(fault, history) ==
    /\ request.svc = "A" /\ request.op = "add"
    /\ LET r == add_memory(db, request.data, request.category, request.user_id,
                           now, fault)
       IN  /\ db' = r.db
           /\ resp' = r.resp
           /\ lastAdd' = IF history /\ r.added THEN Added("A", r.resp.scope) ELSE lastAdd
    /\ request' = NoRequest
    /\ UNCHANGED <<unit, poll, now, varsB, varsC>>

SearchA(fault) ==
    /\ request.svc = "A" /\ request.op = "search"
    /\ resp' = search_memory(db, request.query, request.category, request.user_id, fault)
    /\ request' = NoRequest
    /\ UNCHANGED <<unit, poll, now, lastAdd, varsA, varsB, varsC>>

DeleteA(fault) ==
    /\ request.svc = "A" /\ request.op = "delete"
    /\ LET r == delete_old_data(db, request.user_id, request.categories,
                                request.days, now, fault)
       IN  /\ db' = r.db
           /\ resp' = r.resp
    /\ request' = NoRequest
    /\ UNCHANGED <<unit, poll, now, lastAdd, varsB, varsC>>

IngestB(fault, mentions, history) ==
    /\ request.svc = "B" /\ request.op = "add"
    /\ LET r == add_data([nodes |-> nodes, rels |-> rels], graphiti, request.data,
                         request.category, request.user_id, now, fault, mentions)
       IN  /\ nodes' = r.g.nodes
           /\ rels' = r.g.rels
           /\ resp' = r.resp
           /\ lastAdd' = IF history /\ r.added THEN Added("B", r.resp.scope) ELSE lastAdd
    /\ request' = NoRequest
    /\ UNCHANGED <<unit, poll, now, varsA, graphiti, async_driver, varsC>>

SearchB(fault) ==
    /\ request.svc = "B" /\ request.op = "search"
    /\ resp' = strict_search([nodes |-> nodes, rels |-> rels], graphiti, request.query,
                             request.category, request.user_id, fault)
    /\ request' = NoRequest
    /\ UNCHANGED <<unit, poll, now, lastAdd, varsA, varsB, varsC>>

DeleteOldB(fault) ==
    /\ request.svc = "B" /\ request.op = "delete"
    /\ LET r == delete_old_data_B([nodes |-> nodes, rels |-> rels], async_driver,
                                  request.user_id, now, fault)
       IN  /\ nodes' = r.g.nodes
           /\ rels' = r.g.rels
           /\ resp' = r.resp
    /\ request' = NoRequest
    /\ UNCHANGED <<unit, poll, now, lastAdd, varsA, graphiti, async_driver, varsC>>

HealthA ==
    /\ request.svc = "A" /\ request.op = "health"
    /\ resp' = health_check
    /\ request' = NoRequest
    /\ UNCHANGED <<unit, poll, now, lastAdd, varsA, varsB, varsC>>

HealthB ==
    /\ request.svc = "B" /\ request.op = "health"
    /\ resp' = health_check_B(graphiti, async_driver)
    /\ request' = NoRequest
    /\ UNCHANGED <<unit, poll, now, lastAdd, varsA, varsB, varsC>>

AddC(fault) ==
    /\ request.svc = "C" /\ request.op = "add"
    /\ LET r == add_memory_C(memories, memory = "Memory", request.data,
                             request.category, request.user_id, now, fault)
       IN  /\ memories' = r.mems
           /\ resp' = r.resp
    /\ request' = NoRequest
    /\ UNCHANGED <<unit, poll, now, lastAdd, varsA, varsB, memory>>

SearchC(fault, raw_response) ==
    /\ request.svc = "C" /\ request.op = "search"
    /\ resp' = search_memories(memory = "Memory", request.query, request.category,
                               request.user_id, fault, raw_response)
    /\ request' = NoRequest
    /\ UNCHANGED <<unit, poll, now, lastAdd, varsA, varsB, varsC>>

DeleteOldC(fault, failing) ==
    /\ request.svc = "C" /\ request.op = "delete"
    /\ LET r == delete_old_memories(memories, memory = "Memory", request.user_id,
                                    now, fault, failing)
       IN  /\ memories' = r.mems
           /\ resp' = r.resp
    /\ request' = NoRequest
    /\ UNCHANGED <<unit, poll, now, lastAdd, varsA, varsB, memory>>

(***************************************************************************)
(* Inputs and specifications                                               *)
(***************************************************************************)
General == <<"g", "e", "n", "e", "r", "a", "l">>

QueryInputs == {JAbsent, JStr(<<"q">>)}

\* service A, the cleanup: one user, two categories, two texts, and a clock
\* that runs to MaxDaysA days
MaxDaysA == 2

TextInputs == {JStr(<<"x">>), JStr(<<"y">>)}

CategoryInputsA == {JStr(<<"c">>), JStr(<<"b", "_", "c">>)}

CategoriesInputs ==
    {JAbsent, JList(<<>>), JStr(<<"c">>), JList(<< <<"c">> >>),
     JList(<< <<"b", "_", "c">> >>), JList(<< <<"c">>, <<"b", "_", "c">> >>)}

DaysInputs == {JAbsent, JStr(<<"a", "b", "c">>), JStr(<<"1">>), JInt(0), JInt(1)}

RequestsA ==
    {AddRequest("A", d, c, JStr(<<"a">>)) : d \in TextInputs, c \in CategoryInputsA}
    \cup {AddRequest("A", JAbsent, JStr(<<"c">>), JStr(<<"a">>))}
    \cup {DeleteRequest("A", JStr(<<"a">>), cs, n) :
            cs \in CategoriesInputs, n \in DaysInputs}
    \cup {DeleteRequest("A", JAbsent, JList(<< <<"c">> >>), JInt(0))}

NextA ==
    \/ Tick(1, MaxDaysA)
    \/ \E r \in RequestsA : Receive(r)
    \/ \E fault \in AddFaultsA : AddA(fault, FALSE)
    \/ \E fault \in DeleteFaultsA : DeleteA(fault)

SpecA == InitA /\ [][NextA]_vars

\* services B and C, the cleanup: the clock moves TickDays at a time
TickDays == 45

MaxDays == 135

UserIdInputsB ==
    {JAbsent, JStr(<<"a">>), JStr(<<"b">>), JStr(<<"a", "_", "b">>),
     JStr(<<"a", "_", "I", "n", "g", "e", "s", "t", "_", "0">>)}

RequestsB ==
    {AddRequest("B", d, JStr(<<"c">>), u) :
        d \in {JAbsent, JStr(<<"x">>)}, u \in UserIdInputsB}
    \cup {DeleteRequest("B", u, JAbsent, JAbsent) : u \in UserIdInputsB}

NextB ==
    \/ \E result \in AttemptResults : PollB(result)
    \/ StartupB
    \/ Tick(TickDays, MaxDays)
    \/ \E r \in RequestsB : Receive(r)
    \/ \E fault \in IngestFaultsB, mentions \in BOOLEAN : IngestB(fault, mentions, FALSE)
    \/ \E fault \in DeleteFaultsB : DeleteOldB(fault)

SpecB == InitB /\ [][NextB]_vars

UserIdInputsC == {JAbsent, JStr(<<"a">>), JStr(<<"b">>)}

RequestsC ==
    {AddRequest("C", d, JAbsent, u) :
        d \in {JAbsent, JNull, JStr(<<>>), JStr(<<"x">>)}, u \in UserIdInputsC}
    \cup {DeleteRequest("C", u, JAbsent, JAbsent) : u \in UserIdInputsC}

NextC ==
    \/ \E result \in AttemptResults : PollC(result)
    \/ \E ok \in BOOLEAN : StartupC(ok)
    \/ Tick(TickDays, MaxDays)
    \/ \E r \in RequestsC : Receive(r)
    \/ \E fault \in AddFaultsC : AddC(fault)
    \/ \E fault \in DeleteFaultsC, failing \in SUBSET (1..MaxMemories) :
            DeleteOldC(fault, failing)

SpecC == InitC /\ [][NextC]_vars

\* service C, the search: what the library may answer is a list of up to
\* MaxCandidates candidates, numbered in the library's order, each with the
\* category of its metadata (JNull when it has none)
MaxCandidates == 6

CandidateCategories == {JStr(<<"c">>), JStr(<<"d">>), JNull}

CandidateLists ==
    UNION {{[k \in 1..n |-> [id |-> k, category |-> f[k]]] :
                f \in [1..n -> CandidateCategories]} : n \in 0..MaxCandidates}

RawResponses ==
    {[shape |-> "dict", results |-> l] : l \in CandidateLists}
    \cup {[shape |-> "list", results |-> <<>>],
          [shape |-> "list", results |-> <<[id |-> 1, category |-> JStr(<<"c">>)]>>],
          [shape |-> "other", results |-> <<>>]}

RequestsSearchC ==
    {SearchRequest("C", JStr(<<"q">>), c, JStr(<<"a">>)) :
        c \in {JAbsent, JStr(<<>>), JStr(<<"c">>), JStr(<<"e">>)}}
    \cup {SearchRequest("C", JAbsent, JStr(<<"c">>), JStr(<<"a">>)),
          SearchRequest("C", JStr(<<"q">>), JStr(<<"c">>), JAbsent)}

NextSearchC ==
    \/ \E result \in AttemptResults : PollC(result)
    \/ \E ok \in BOOLEAN : StartupC(ok)
    \/ \E r \in RequestsSearchC : Receive(r)
    \/ \E fault \in SearchFaults, raw_response \in RawResponses :
            SearchC(fault, raw_response)

SpecSearchC == InitC /\ [][NextSearchC]_vars

\* scoping and liveness: the add, search and health requests, for user ids
\* and categories (<<user_id, category>>) with and without the separator
ScopePairs ==
    {<<JStr(<<"a">>), JStr(<<"c">>)>>, <<JStr(<<"c">>), JStr(<<"a">>)>>,
     <<JStr(<<"a", "_", "b">>), JStr(<<"c">>)>>,
     <<JStr(<<"a">>), JStr(<<"b", "_", "c">>)>>,
     <<JStr(<<"a">>), JAbsent>>, <<JAbsent, JStr(<<"c">>)>>,
     <<JStr(<<>>), JStr(<<"c">>)>>}

RequestsScope ==
    {AddRequest(svc, d, p[2], p[1]) :
        svc \in {"A", "B"}, d \in {JAbsent, JStr(<<"x">>)}, p \in ScopePairs}
    \cup {SearchRequest(svc, q, p[2], p[1]) :
            svc \in {"A", "B"}, q \in QueryInputs, p \in ScopePairs}
    \cup {AddRequest("C", d, JAbsent, u) :
            d \in {JAbsent, JNull, JStr(<<>>), JStr(<<"x">>)},
            u \in {JAbsent, JNull, JStr(<<"a">>)}}
    \cup {HealthRequest(svc) : svc \in {"A", "B"}}

NextScope ==
    \/ \E result \in AttemptResults : PollB(result)
    \/ \E result \in AttemptResults : PollC(result)
    \/ StartupB
    \/ \E ok \in BOOLEAN : StartupC(ok)
    \/ \E r \in RequestsScope : Receive(r)
    \/ \E fault \in {"none", "add"} : AddA(fault, TRUE)
    \/ \E fault \in SearchFaults : SearchA(fault)
    \/ \E fault \in IngestFaultsB, mentions \in BOOLEAN : IngestB(fault, mentions, TRUE)
    \/ \E fault \in SearchFaults : SearchB(fault)
    \/ \E fault \in AddFaultsC : AddC(fault)
    \/ HealthA
    \/ HealthB

SpecScope == Init /\ [][NextScope]_vars

(***************************************************************************)
(* Service A /delete: what the claims say of one handled request, read     *)
(* from the tables before the handler ran                                  *)
(***************************************************************************)
DeleteHandledA == request.svc = "A" /\ request.op = "delete" /\ request' = NoRequest

\* every required field is there and has its type's form
PassesValidationA ==
    /\ request.user_id.t = "str" /\ request.user_id.s # <<>>
    /\ request.categories.t = "list" /\ request.categories.l # <<>>
    /\ request.days.t = "int" \/ (request.days.t = "str" /\ AllDigits(request.days.s))

RequestedDays ==
    IF request.days.t = "int" THEN request.days.i ELSE DecimalValue(request.days.s)

\* the requested datasets that exist
Targeted ==
    {n \in db.datasets :
        \E k \in 1..Len(request.categories.l) :
            n = request.user_id.s \o <<"_">> \o request.categories.l[k]}

\* the N links of a dataset, and the K of them to a data row older than the cutoff
Linked(ds) == {dd \in db.dataset_data : dd[1] = ds}

OldLinked(ds) ==
    {dd \in Linked(ds) : \E r \in db.data : r[1] = dd[2] /\ r[2] < now - RequestedDays}

AllOldLinked == UNION {OldLinked(ds) : ds \in Targeted}

RemovedDatasets == {ds \in Targeted : OldLinked(ds) = Linked(ds)}

\* C3: a successful /delete removes, for every targeted dataset, exactly the K
\* links to data rows older than the cutoff and exactly those data rows; a
\* targeted dataset (with its acls, dataset_database and pipeline_runs rows) is
\* removed iff K = N, no other row of any table is removed; the response counts
\* the K's in data_entries_deleted and the removed datasets in
\* empty_datasets_removed.
C3_DeleteRemovesExactlyOld ==
    [][(DeleteHandledA /\ resp'.status = 200) =>
        /\ db'.dataset_data = db.dataset_data \ AllOldLinked
        /\ db'.data = {r \in db.data : r[1] \notin {dd[2] : dd \in AllOldLinked}}
        /\ db'.datasets = db.datasets \ RemovedDatasets
        /\ db'.acls = db.acls \ RemovedDatasets
        /\ db'.dataset_database = db.dataset_database \ RemovedDatasets
        /\ db'.pipeline_runs = db.pipeline_runs \ RemovedDatasets
        /\ resp'.data_entries_deleted = Cardinality(AllOldLinked)
        /\ resp'.empty_datasets_removed = Cardinality(RemovedDatasets)]_vars

\* C3: a cleanup that deleted old rows, removed an emptied dataset and kept a link
C3_Witness ==
    /\ resp.svc = "A" /\ resp.op = "delete" /\ resp.status = 200
    /\ resp.data_entries_deleted >= 1
    /\ resp.empty_datasets_removed >= 1
    /\ db.dataset_data # {}
    /\ db.data # {}

\* C4: a well-formed /delete that names no existing dataset deletes nothing and
\* is never answered 200; it is answered 404 whenever the database serves it
\* (a 500 comes only from the connection, the lookup or the commit failing).
C4_NotFoundIs404 ==
    [][(DeleteHandledA /\ PassesValidationA /\ Targeted = {}) =>
        /\ db' = db
        /\ resp'.status \in {404, 500}
        /\ DeleteA("none") => resp'.status = 404]_vars

\* C4: a cleanup answered 404 while other datasets are stored
C4_Witness ==
    /\ resp.svc = "A" /\ resp.op = "delete" /\ resp.status = 404
    /\ db.datasets # {}

NothingOldRequested ==
    /\ PassesValidationA
    /\ Targeted # {}
    /\ \A ds \in Targeted : OldLinked(ds) = {}

ZeroCountsUnchanged ==
    /\ resp'.status = 200
    /\ resp'.data_entries_deleted = 0
    /\ resp'.empty_datasets_removed = 0
    /\ db' = db

\* C5 as claimed: when a requested dataset exists and no linked data row is older
\* than the cutoff, a /delete the database serves is answered 200 with zero
\* counts and leaves the tables unchanged.
C5_AsClaimed ==
    [][(DeleteA("none") /\ NothingOldRequested) => ZeroCountsUnchanged]_vars

\* C5 as amended: the same, when every existing requested dataset has at least
\* one linked row (a requested dataset without links is removed and counted).
C5_NothingOldZeroCounts ==
    [][(DeleteA("none") /\ NothingOldRequested
            /\ \A ds \in Targeted : Linked(ds) # {}) => ZeroCountsUnchanged]_vars

\* C5: a cleanup answered 200 with zero counts while links are stored
C5_Witness ==
    /\ resp.svc = "A" /\ resp.op = "delete" /\ resp.status = 200
    /\ resp.data_entries_deleted = 0
    /\ resp.empty_datasets_removed = 0
    /\ db.dataset_data # {}

\* C6: a handled /delete either ran all its statements (the request's whole
\* effect) or is answered 500 with every table as before the request; any other
\* answer than 200 leaves the tables as they were.
C6_DeleteAtomic ==
    [][DeleteHandledA =>
        /\ DeleteA("none") \/ (resp'.status = 500 /\ db' = db)
        /\ resp'.status # 200 => db' = db]_vars

\* C6: a statement raised after the links and the data rows were deleted
C6_Witness ==
    /\ resp.svc = "A" /\ resp.op = "delete" /\ resp.status = 500
    /\ "delete_data" \in resp.touched

\* a required field is missing or malformed
MalformedDeleteA ==
    \/ request.user_id.t \in {"absent", "null"}
    \/ request.categories.t # "list" \/ request.categories.l = <<>>
    \/ request.days.t # "int"

\* C10 as claimed: a /delete with a missing or malformed required field is
\* answered 400, opens no connection and deletes nothing, and 500 is answered
\* only when the backend fails (here: the request is handled with no backend
\* failure at all).
C10_AsClaimed ==
    [][(DeleteHandledA /\ DeleteA("none")) =>
        /\ MalformedDeleteA => (resp'.status = 400 /\ ~resp'.opened /\ db' = db)
        /\ resp'.status # 500]_vars

(***************************************************************************)
(* The scoping token of services A and B                                   *)
(***************************************************************************)
\* a search of service A or B that went to the library with its token
ScopedSearch ==
    /\ request.svc \in {"A", "B"} /\ request.op = "search" /\ request' = NoRequest
    /\ resp'.call # "none"
    /\ lastAdd.svc = request.svc

SamePair ==
    /\ request.user_id.s = lastAdd.user_id
    /\ request.category.s = lastAdd.category

\* C1: for (user_id, category) pairs without '_', the search handler of A and
\* of B passes the library the token of the last successful add/ingest iff it
\* is given the same pair, and a search under the same pair that the library
\* serves reads back what was written.
C1_KeyRoundTrips ==
    [][(ScopedSearch
            /\ NoUnderscore(request.user_id.s) /\ NoUnderscore(request.category.s)
            /\ NoUnderscore(lastAdd.user_id) /\ NoUnderscore(lastAdd.category)) =>
        /\ resp'.scope = lastAdd.scope <=> SamePair
        /\ (SamePair /\ resp'.status = 200) => resp'.results # {}]_vars

\* C1: a search read back, under the token of the last add, what a pair
\* without '_' had written
C1_Witness ==
    /\ resp.svc \in {"A", "B"} /\ resp.op = "search" /\ resp.status = 200
    /\ lastAdd.svc = resp.svc
    /\ resp.scope = lastAdd.scope
    /\ NoUnderscore(lastAdd.user_id) /\ NoUnderscore(lastAdd.category)
    /\ resp.results # {}

\* C2 as claimed: for any two distinct accepted (user_id, category) pairs, '_'
\* allowed, the search under one pair never uses the token the other pair was
\* written under.
C2_AsClaimed ==
    [][(ScopedSearch /\ ~SamePair) => resp'.scope # lastAdd.scope]_vars

(***************************************************************************)
(* Service B /delete_old, the prefix-scoped pass                           *)
(***************************************************************************)
DeleteHandledB == request.svc = "B" /\ request.op = "delete" /\ request' = NoRequest

\* the episodes the requesting user ingested more than days_to_keep days ago
OldEpisodesOfUser ==
    {e \in nodes : /\ e.label = "Episodic"
                   /\ e.source_user = request.user_id.s
                   /\ e.reference_time < now - days_to_keep}

\* C7 as claimed: the prefix-scoped pass of a served /delete_old removes
\* exactly the episodes the requesting user ingested more than 90 days before,
\* whatever user ids /ingest accepted.
C7_AsClaimed ==
    [][(DeleteHandledB /\ resp'.status = 200) =>
        resp'.touched = OldEpisodesOfUser]_vars

(***************************************************************************)
(* Service C /delete_old                                                   *)
(***************************************************************************)
DeleteHandledC == request.svc = "C" /\ request.op = "delete" /\ request' = NoRequest

\* the N records of the requesting user older than the cutoff
OldMemoriesOfUser ==
    {m \in memories : /\ m.user_id = py_str(request.user_id)
                      /\ m.created_at < now - retention_days}

OldIds == {m.id : m \in OldMemoriesOfUser}

\* C8: a /delete_old with a user_id, handled by an initialized service and
\* for which the library lists the user's records, attempts
\* one delete for each of the N old records and for no other; the J deletes
\* that fail stop none of the others: exactly the old records whose delete
\* did not fail are removed, deleted_count = N - J with J error entries, and
\* the answer is 200 when J = 0 and 207 otherwise.
C8_DeleteOldPerRecord ==
    [][(DeleteHandledC /\ memory = "Memory" /\ request.user_id.t # "absent") =>
        \A failing \in SUBSET (1..MaxMemories) :
            DeleteOldC("none", failing) =>
                LET J == Cardinality(failing \cap OldIds)
                IN  /\ resp'.touched = OldIds
                    /\ memories' = {m \in memories :
                                        m.id \notin OldIds \/ m.id \in failing}
                    /\ resp'.deleted_count = Cardinality(OldIds) - J
                    /\ resp'.errors = J
                    /\ resp'.status = IF J = 0 THEN 200 ELSE 207]_vars

\* C8: a cleanup in which a delete failed, a later one was done all the same,
\* and a record was not attempted
C8_Witness ==
    /\ resp.svc = "C" /\ resp.op = "delete" /\ resp.status = 207
    /\ resp.deleted_count >= 1 /\ resp.errors >= 1
    /\ \E i, j \in resp.touched :
            /\ i < j
            /\ \E m \in memories : m.id = i
            /\ ~(\E m \in memories : m.id = j)
    /\ \E m \in memories : m.id \notin resp.touched

(***************************************************************************)
(* Add/ingest without data or user_id                                      *)
(***************************************************************************)
\* absent, null or empty
Missing(v) == v.t \in {"absent", "null"} \/ (v.t = "str" /\ v.s = <<>>)

\* C9 as claimed: an add/ingest whose data or user_id is missing is answered
\* 400 and the library's add primitive is not invoked (here: by a service
\* whose startup succeeded).
C9_AsClaimed ==
    [][(/\ request.op = "add" /\ request' = NoRequest
        /\ unit = "C" => memory = "Memory"
        /\ Missing(request.data) \/ Missing(request.user_id)) =>
        (resp'.status = 400 /\ resp'.call = "none")]_vars

(***************************************************************************)
(* GET /health                                                             *)
(***************************************************************************)
HealthHandled == request.op = "health" /\ request' = NoRequest

\* the process-wide singletons of the service are initialized (service A has
\* none to initialize: its startup sets nothing)
SingletonsInitialized ==
    CASE unit = "B" -> graphiti /\ async_driver
      [] OTHER -> TRUE

\* C11 as claimed: GET /health of services A and B answers 200 exactly when
\* the service's singletons are initialized, and changes no state.
C11_AsClaimed ==
    [][HealthHandled =>
        /\ resp'.status = 200 <=> SingletonsInitialized
        /\ UNCHANGED <<now, lastAdd, varsA, varsB, varsC>>]_vars

(***************************************************************************)
(* Service C /search                                                       *)
(***************************************************************************)
SearchHandledC == request.svc = "C" /\ request.op = "search" /\ request' = NoRequest

\* a category is given and these candidates are the ones that have it
CategoryGiven == request.category.t = "str" /\ request.category.s # <<>>

MatchingIds(candidates) ==
    {k \in 1..Len(candidates) : candidates[k].category = request.category}

\* the first (up to) n of a set of candidate numbers
FirstOf(ids, n) == {k \in ids : Cardinality({h \in ids : h < k}) < n}

\* the answers of the library that hold no candidate
ZeroCandidates == {raw_response \in RawResponses : raw_response.results = <<>>}

\* C12: a /search answered 200 returns at most 5 of the library's candidates,
\* in the library's order; they are the first (up to 5) candidates that have
\* the given category when a category is given and some candidate has it,
\* and the first (up to 5) candidates otherwise; a search for which the
\* library has no candidate is answered 200 with an empty list.
C12_SearchTopFive ==
    [][SearchHandledC =>
        /\ resp'.status = 200 =>
              LET candidates == resp'.candidates
                  results == resp'.results_list
                  base == IF CategoryGiven /\ MatchingIds(candidates) # {}
                          THEN MatchingIds(candidates)
                          ELSE 1..Len(candidates)
              IN  /\ Len(results) <= 5
                  /\ \A k \in 1..Len(results) : candidates[results[k].id] = results[k]
                  /\ \A k \in 1..(Len(results) - 1) : results[k].id < results[k + 1].id
                  /\ {results[k].id : k \in 1..Len(results)} = FirstOf(base, 5)
                  /\ candidates = <<>> => results = <<>>
        /\ (/\ memory = "Memory"
            /\ request.query.t # "absent" /\ request.user_id.t # "absent"
            /\ \E raw_response \in ZeroCandidates : SearchC("none", raw_response))
              => (resp'.status = 200 /\ resp'.results_list = <<>>)]_vars

\* C12: of more than 5 candidates, 5 were returned, and the first returned is
\* not the library's first: the category chose them
C12_Witness ==
    /\ resp.svc = "C" /\ resp.op = "search" /\ resp.status = 200
    /\ Len(resp.candidates) > 5
    /\ Len(resp.results_list) = 5
    /\ resp.results_list[1].id > 1

(***************************************************************************)
(* Service B /delete_old, the orphan sweep                                 *)
(***************************************************************************)
\* the graph after the prefix-scoped pass deleted the episodes it matched
NodesAfterPrefixPass == nodes \ resp'.touched

RelsAfterPrefixPass == {r \in rels : ~(\E e \in resp'.touched : e.uuid = r[1])}

\* node n is an end of one of the relationships rs
Related(n, rs) ==
    \/ n.label = "Episodic" /\ \E r \in rs : r[1] = n.uuid
    \/ n.label = "Entity" /\ \E r \in rs : r[2] = n.group_id

\* C13: in every /delete_old answered 200, also one that deleted no episode,
\* the sweep that follows the prefix-scoped pass deletes exactly the nodes of
\* the whole graph left without a relationship, of whatever user: no node
\* without a relationship remains and no node with a relationship (and no
\* relationship) is deleted by it.
C13_OrphanSweep ==
    [][(DeleteHandledB /\ resp'.status = 200) =>
        /\ nodes' = {n \in NodesAfterPrefixPass : Related(n, RelsAfterPrefixPass)}
        /\ rels' = RelsAfterPrefixPass
        /\ \A n \in nodes' : Related(n, rels')
        /\ resp'.deleted_nodes = Cardinality(NodesAfterPrefixPass \ nodes')]_vars

\* C13: a cleanup that matched no episode swept a node and kept a related one
C13_Witness ==
    /\ resp.svc = "B" /\ resp.op = "delete" /\ resp.status = 200
    /\ resp.deleted_episodes = 0
    /\ resp.deleted_nodes >= 1
    /\ nodes # {}

(***************************************************************************)
(* The startup gate of services B and C                                    *)
(***************************************************************************)
\* the client singleton the handlers of the service use is initialized
ClientInitialized ==
    CASE unit = "B" -> graphiti /\ async_driver
      [] unit = "C" -> memory = "Memory"
      [] OTHER -> TRUE

\* C14 as claimed: the polling loop makes at most max_retries attempts; an
\* attempt that connects ends it with success, and it raises exactly when
\* the last of max_retries attempts has failed; a handler of B or C invokes
\* the library only after the polling succeeded and the client singleton
\* was initialized.
C14_AsClaimed ==
    [][/\ \A result \in AttemptResults :
            (PollB(result) \/ PollC(result)) =>
                /\ poll.i < max_retries
                /\ poll'.state = "ready" <=> result = "connected"
                /\ poll'.state = "raised" <=>
                        (result # "connected" /\ poll.i = max_retries - 1)
       /\ (unit \in {"B", "C"} /\ request.op # "none" /\ resp'.call # "none") =>
                (poll.state = "ready" /\ ClientInitialized)]_vars

(***************************************************************************)
(* Service A /delete: the junction rows                                    *)
(***************************************************************************)
\* every dataset_data row refers to a dataset row and to a data row
ReferentialIntegrity(d) ==
    \A dd \in d.dataset_data :
        /\ dd[1] \in d.datasets
        /\ \E r \in d.data : r[1] = dd[2]

\* C15 as claimed: after a /delete answered 200 on tables whose junction rows
\* all referred to existing rows, every remaining junction row still refers
\* to an existing dataset row and to an existing data row.
C15_AsClaimed ==
    [][(DeleteHandledA /\ resp'.status = 200 /\ ReferentialIntegrity(db)) =>
        ReferentialIntegrity(db')]_vars

====
